---- MODULE Spec2Model ----
(***************************************************************************)
(* Model of the room-navigation engine of text_adventure_engine.py:        *)
(* Room, AdventureGame (world construction, command interpreter,           *)
(* controller) and the interaction loop play(); and of the payoff-matrix   *)
(* analysis of prisoners_dilemma.py.                                       *)
(*                                                                         *)
(* A line of input is a sequence of one-character strings, so that         *)
(* str.lower, str.strip and str.split are computed character by character. *)
(* Text written to standard output is kept as TLA+ strings; stdout is the  *)
(* sequence of the writes made so far.                                     *)
(***************************************************************************)
EXTENDS Naturals, Sequences, FiniteSets, TLC

VARIABLES
    rooms,          \* AdventureGame.rooms: room key -> Room
    current_room,   \* AdventureGame.current_room, held as the room's key
    is_running,     \* AdventureGame.is_running
    stdout,         \* the writes made to standard output, oldest first
    pending,        \* number of lines standard input still holds
    line_read,      \* the line the last read of input returned, before strip()
    event,          \* how the last read of input ended: none, line, EOFError,
                    \* KeyboardInterrupt; call when a caller drove the controller
    pc,             \* position of the program: create_world, init, loop, done, crashed;
                    \* pd_start, pd_nash, pd_done in prisoners_dilemma.py
    matrix,         \* prisoners_dilemma.py: the payoff matrix handed to the analysis
    ne_results,     \* prisoners_dilemma.py: ne_results
    so_result       \* prisoners_dilemma.py: so_result

\* the variables of prisoners_dilemma.py, which the engine never touches
analysis == <<matrix, ne_results, so_result>>

vars == <<rooms, current_room, is_running, stdout, pending, line_read, event, pc,
          matrix, ne_results, so_result>>

(***************************************************************************)
(* Bounds                                                                  *)
(***************************************************************************)
\* most lines an input stream holds
MaxInput == 4
\* most years in prison a generated payoff matrix holds
MaxYears == 2

\* a local variable assignment: Body applied to the value of e, which is
\* evaluated once
With(e, Body(_)) == CHOOSE r \in {Body(x) : x \in {e}} : TRUE

(***************************************************************************)
(* Strings as character sequences                                          *)
(***************************************************************************)
\* str.lower() on the ASCII letters
LowerTable ==
    [A |-> "a", B |-> "b", C |-> "c", D |-> "d", E |-> "e", F |-> "f", G |-> "g",
     H |-> "h", I |-> "i", J |-> "j", K |-> "k", L |-> "l", M |-> "m", N |-> "n",
     O |-> "o", P |-> "p", Q |-> "q", R |-> "r", S |-> "s", T |-> "t", U |-> "u",
     V |-> "v", W |-> "w", X |-> "x", Y |-> "y", Z |-> "z"]

LowerChar(c) == IF c \in DOMAIN LowerTable THEN LowerTable[c] ELSE c

lower(s) == [i \in 1..Len(s) |-> LowerChar(s[i])]

\* the characters str.strip() and str.split() treat as whitespace
IsSpace(c) == c \in {" ", "\t", "\n", "\r", "\f"}

\* positions of the characters of s that are not whitespace
Inked(s) == {i \in 1..Len(s) : ~IsSpace(s[i])}

\* str.strip(): s without its leading and trailing whitespace
strip(s) ==
    IF Inked(s) = {} THEN <<>>
    ELSE SubSeq(s, CHOOSE i \in Inked(s) : \A j \in Inked(s) : i <= j,
                   CHOOSE i \in Inked(s) : \A j \in Inked(s) : j <= i)

\* positions where a maximal run of non-whitespace starts, and where it ends
TokenStarts(s) == {i \in Inked(s) : i = 1 \/ IsSpace(s[i - 1])}
TokenEnds(s) == {i \in Inked(s) : i = Len(s) \/ IsSpace(s[i + 1])}

\* the k-th smallest element of a set of numbers
Nth(S, k) == CHOOSE i \in S : Cardinality({j \in S : j < i}) = k - 1

\* str.split() with no separator: the maximal runs of non-whitespace, in order
split(s) ==
    [k \in 1..Cardinality(TokenStarts(s)) |->
        SubSeq(s, Nth(TokenStarts(s), k), Nth(TokenEnds(s), k))]

\* the text of a character sequence
RECURSIVE StrFrom(_, _)
StrFrom(s, i) == IF i > Len(s) THEN "" ELSE s[i] \o StrFrom(s, i + 1)

Str(s) == StrFrom(s, 1)

\* ", ".join(items)
RECURSIVE JoinFrom(_, _)
JoinFrom(items, i) ==
    IF i > Len(items) THEN ""
    ELSE IF i = Len(items) THEN items[i]
    ELSE items[i] \o ", " \o JoinFrom(items, i + 1)

Join(items) == JoinFrom(items, 1)

(***************************************************************************)
(* dict, as Room.connections uses it: insertion-ordered, unique keys       *)
(***************************************************************************)
DictHas(d, k) == \E i \in 1..Len(d) : d[i][1] = k

DictGet(d, k) == d[CHOOSE i \in 1..Len(d) : d[i][1] = k][2]

DictSet(d, k, v) ==
    IF DictHas(d, k)
    THEN [i \in 1..Len(d) |-> IF d[i][1] = k THEN <<k, v>> ELSE d[i]]
    ELSE Append(d, <<k, v>>)

DictKeys(d) == [i \in 1..Len(d) |-> d[i][1]]

(***************************************************************************)
(* class Room                                                              *)
(***************************************************************************)
Room(name, description, is_end) ==
    [name |-> name, description |-> description, connections |-> <<>>,
     is_end |-> is_end]

add_connection(room, direction, target_room) ==
    [room EXCEPT !.connections = DictSet(@, direction, target_room)]

get_description(room) ==
    "--- " \o room.name \o " ---\n" \o room.description \o "\n"
    \o "Available exits: " \o Join(DictKeys(room.connections))

(***************************************************************************)
(* AdventureGame._create_world                                             *)
(***************************************************************************)
r1 == Room("Entrance Hall",
           "You are in a dusty, dimly lit hall. There is a suit of armor by the north wall.",
           FALSE)
r2 == Room("Treasure Chamber",
           "A small chamber filled with glittering gold and ancient artifacts! You win!",
           TRUE)
r3 == Room("Dark Corridor",
           "A narrow, dark corridor. It smells faintly of mildew.",
           FALSE)
r4 == Room("Storage Room",
           "Boxes and old crates are stacked high. A small key is visible beneath a loose floorboard.",
           FALSE)

RoomKeys == {"start_hall", "treasure_chamber", "dark_corridor", "storage_room"}

\* _create_world with the corridor's key misspelt in one declared exit
create_world_misspelt ==
    LET h == add_connection(add_connection(r1, "north", "dark_corridor"),
                            "east", "treasure_chamber")
        c == add_connection(add_connection(r3, "south", "start_hall"),
                            "west", "storage_room")
        s == add_connection(r4, "east", "dark_coridor")
    IN  [k \in RoomKeys |->
            CASE k = "start_hall" -> h
              [] k = "treasure_chamber" -> r2
              [] k = "dark_corridor" -> c
              [] k = "storage_room" -> s]

\* _create_world without the way back out of the storage room
create_world_dead_end ==
    LET h == add_connection(add_connection(r1, "north", "dark_corridor"),
                            "east", "treasure_chamber")
        c == add_connection(add_connection(r3, "south", "start_hall"),
                            "west", "storage_room")
    IN  [k \in RoomKeys |->
            CASE k = "start_hall" -> h
              [] k = "treasure_chamber" -> r2
              [] k = "dark_corridor" -> c
              [] k = "storage_room" -> r4]

create_world ==
    LET h == add_connection(add_connection(r1, "north", "dark_corridor"),
                            "east", "treasure_chamber")
        c == add_connection(add_connection(r3, "south", "start_hall"),
                            "west", "storage_room")
        s == add_connection(r4, "east", "dark_corridor")
    IN  [k \in RoomKeys |->
            CASE k = "start_hall" -> h
              [] k = "treasure_chamber" -> r2
              [] k = "dark_corridor" -> c
              [] k = "storage_room" -> s]

(***************************************************************************)
(* AdventureGame: the controller.  A session value g carries the fields    *)
(* the handlers read and write: current_room, is_running, the output       *)
(* written so far, and the exception raised, if any.                       *)
(***************************************************************************)
Session(room, running, out) ==
    [current_room |-> room, is_running |-> running, stdout |-> out,
     raised |-> "none"]

\* print(text): the text and a newline
print(g, text) == [g EXCEPT !.stdout = Append(@, text \o "\n")]

\* look printing the room's name only
look_name_only(g) == print(g, "\n--- " \o rooms[g.current_room].name \o " ---")

look(g) == print(g, "\n" \o get_description(rooms[g.current_room]))

\* _handle_move treating a direction that is no exit as the end of the game
handle_move_reject_ends(g, direction) ==
    LET connections == rooms[g.current_room].connections
    IN  IF DictHas(connections, direction)
        THEN LET next_room_key == DictGet(connections, direction)
             IN  IF next_room_key \notin DOMAIN rooms
                 THEN [g EXCEPT !.raised = "KeyError"]
                 ELSE LET g1 == [g EXCEPT !.current_room = next_room_key]
                      IN  IF rooms[next_room_key].is_end
                          THEN [print(g1, "\n" \o get_description(rooms[next_room_key]))
                                  EXCEPT !.is_running = FALSE]
                          ELSE look(g1)
        ELSE [print(g, "You cannot go that way.") EXCEPT !.is_running = FALSE]

\* _handle_move assigning is_running from the is_end flag of the room entered
handle_move_sets_running(g, direction) ==
    LET connections == rooms[g.current_room].connections
    IN  IF DictHas(connections, direction)
        THEN LET next_room_key == DictGet(connections, direction)
             IN  IF next_room_key \notin DOMAIN rooms
                 THEN [g EXCEPT !.raised = "KeyError"]
                 ELSE [print([g EXCEPT !.current_room = next_room_key],
                             "\n" \o get_description(rooms[next_room_key]))
                         EXCEPT !.is_running = ~rooms[next_room_key].is_end]
        ELSE print(g, "You cannot go that way.")

\* _handle_move without the is_end branch
handle_move_no_end(g, direction) ==
    LET connections == rooms[g.current_room].connections
    IN  IF DictHas(connections, direction)
        THEN LET next_room_key == DictGet(connections, direction)
             IN  IF next_room_key \notin DOMAIN rooms
                 THEN [g EXCEPT !.raised = "KeyError"]
                 ELSE look([g EXCEPT !.current_room = next_room_key])
        ELSE print(g, "You cannot go that way.")

\* _handle_move that ends the session in a terminal room with the farewell of quit_game
handle_move_end_quits(g, direction) ==
    LET connections == rooms[g.current_room].connections
    IN  IF DictHas(connections, direction)
        THEN LET next_room_key == DictGet(connections, direction)
             IN  IF next_room_key \notin DOMAIN rooms
                 THEN [g EXCEPT !.raised = "KeyError"]
                 ELSE LET g1 == [g EXCEPT !.current_room = next_room_key]
                      IN  IF rooms[next_room_key].is_end
                          THEN print([print(g1, "\n" \o get_description(rooms[next_room_key]))
                                        EXCEPT !.is_running = FALSE],
                                     "\nThank you for playing. Goodbye!")
                          ELSE look(g1)
        ELSE print(g, "You cannot go that way.")

handle_move(g, direction) ==
    LET connections == rooms[g.current_room].connections
    IN  IF DictHas(connections, direction)
        THEN LET next_room_key == DictGet(connections, direction)
             IN  IF next_room_key \notin DOMAIN rooms
                 THEN [g EXCEPT !.raised = "KeyError"]
                 ELSE LET g1 == [g EXCEPT !.current_room = next_room_key]
                      IN  IF rooms[next_room_key].is_end
                          THEN [print(g1, "\n" \o get_description(rooms[next_room_key]))
                                  EXCEPT !.is_running = FALSE]
                          ELSE look(g1)
        ELSE print(g, "You cannot go that way.")

\* quit_game that prints the farewell and leaves is_running set
quit_game_keeps_running(g) == print(g, "\nThank you for playing. Goodbye!")

quit_game(g) ==
    print([g EXCEPT !.is_running = FALSE], "\nThank you for playing. Goodbye!")

MoveVerbs == {"north", "south", "east", "west", "go"}

\* parse_command taking the verb as the direction, also after "go"
parse_command_verb_only(g, line) ==
    With(strip(lower(line)), LAMBDA command :
    With(split(command), LAMBDA parts :
        IF parts = <<>> THEN g
        ELSE With(Str(parts[1]), LAMBDA verb :
                 IF verb \in MoveVerbs THEN handle_move(g, verb)
                 ELSE IF verb \in {"quit", "exit"} THEN quit_game(g)
                 ELSE IF verb \in {"look", "l"} THEN look(g)
                 ELSE print(g, "Unknown command: '" \o Str(command)
                                  \o "'. Try 'go north' or 'quit'."))))

\* parse_command without the call of lower()
parse_command_no_lower(g, line) ==
    With(strip(line), LAMBDA command :
    With(split(command), LAMBDA parts :
        IF parts = <<>> THEN g
        ELSE With(Str(parts[1]), LAMBDA verb :
                 IF verb \in MoveVerbs
                 THEN handle_move(g, IF verb = "go" THEN Str(parts[Len(parts)])
                                                    ELSE verb)
                 ELSE IF verb \in {"quit", "exit"} THEN quit_game(g)
                 ELSE IF verb \in {"look", "l"} THEN look(g)
                 ELSE print(g, "Unknown command: '" \o Str(command)
                                  \o "'. Try 'go north' or 'quit'."))))

\* parse_command taking the token after "go" as the direction
parse_command_second_token(g, line) ==
    With(strip(lower(line)), LAMBDA command :
    With(split(command), LAMBDA parts :
        IF parts = <<>> THEN g
        ELSE With(Str(parts[1]), LAMBDA verb :
                 IF verb \in MoveVerbs
                 THEN IF verb = "go" /\ Len(parts) < 2
                      THEN [g EXCEPT !.raised = "IndexError"]
                      ELSE handle_move(g, IF verb = "go" THEN Str(parts[2])
                                                         ELSE verb)
                 ELSE IF verb \in {"quit", "exit"} THEN quit_game(g)
                 ELSE IF verb \in {"look", "l"} THEN look(g)
                 ELSE print(g, "Unknown command: '" \o Str(command)
                                  \o "'. Try 'go north' or 'quit'."))))

\* parse_command without the final else branch
parse_command_unknown_silent(g, line) ==
    With(strip(lower(line)), LAMBDA command :
    With(split(command), LAMBDA parts :
        IF parts = <<>> THEN g
        ELSE With(Str(parts[1]), LAMBDA verb :
                 IF verb \in MoveVerbs
                 THEN handle_move(g, IF verb = "go" THEN Str(parts[Len(parts)])
                                                    ELSE verb)
                 ELSE IF verb \in {"quit", "exit"} THEN quit_game(g)
                 ELSE IF verb \in {"look", "l"} THEN look(g)
                 ELSE g)))

parse_command(g, line) ==
    With(strip(lower(line)), LAMBDA command :
    With(split(command), LAMBDA parts :
        IF parts = <<>> THEN g
        ELSE With(Str(parts[1]), LAMBDA verb :
                 IF verb \in MoveVerbs
                 THEN handle_move(g, IF verb = "go" THEN Str(parts[Len(parts)])
                                                    ELSE verb)
                 ELSE IF verb \in {"quit", "exit"} THEN quit_game(g)
                 ELSE IF verb \in {"look", "l"} THEN look(g)
                 ELSE print(g, "Unknown command: '" \o Str(command)
                                  \o "'. Try 'go north' or 'quit'."))))

(***************************************************************************)
(* prisoners_dilemma.py                                                    *)
(***************************************************************************)
STRATEGIES == <<"C", "D">>

\* the keys of the payoff matrix, in the order the dict holds them
Profiles == << <<"C", "C">>, <<"C", "D">>, <<"D", "C">>, <<"D", "D">> >>

PAYOFF_MATRIX ==
    [k \in {Profiles[i] : i \in 1..Len(Profiles)} |->
        CASE k = <<"C", "C">> -> <<2, 2>>
          [] k = <<"C", "D">> -> <<10, 0>>
          [] k = <<"D", "C">> -> <<0, 10>>
          [] k = <<"D", "D">> -> <<5, 5>>]

\* None
None == <<>>

\* the other strategy: 'D' if s == 'C' else 'C'
Alternative(s) == IF s = "C" THEN "D" ELSE "C"

\* is_nash with the comparisons turned around (more years taken as better)
is_nash_reversed(payoffs, s1, s2) ==
    LET p1_payoff == payoffs[<<s1, s2>>][1]
        p2_payoff == payoffs[<<s1, s2>>][2]
        p1_alt_payoff == payoffs[<<Alternative(s1), s2>>][1]
        p2_alt_payoff == payoffs[<<s1, Alternative(s2)>>][2]
    IN  ~(p1_alt_payoff > p1_payoff) /\ ~(p2_alt_payoff > p2_payoff)

\* the body of the two loops of find_nash_equilibrium for one pair (s1, s2):
\* whether the pair is appended
is_nash(payoffs, s1, s2) ==
    LET p1_payoff == payoffs[<<s1, s2>>][1]
        p2_payoff == payoffs[<<s1, s2>>][2]
        p1_alt_payoff == payoffs[<<Alternative(s1), s2>>][1]
        p2_alt_payoff == payoffs[<<s1, Alternative(s2)>>][2]
    IN  ~(p1_alt_payoff < p1_payoff) /\ ~(p2_alt_payoff < p2_payoff)

\* the pairs (s1, s2) from the i-th of the first loop and the j-th of the
\* second on, with the entries appended for them
RECURSIVE NashFrom(_, _, _)
NashFrom(payoffs, i, j) ==
    IF i > Len(STRATEGIES) THEN <<>>
    ELSE IF j > Len(STRATEGIES) THEN NashFrom(payoffs, i + 1, 1)
    ELSE LET s1 == STRATEGIES[i]
             s2 == STRATEGIES[j]
         IN  (IF is_nash(payoffs, s1, s2)
              THEN << <<<<s1, s2>>, payoffs[<<s1, s2>>]>> >>
              ELSE <<>>)
             \o NashFrom(payoffs, i, j + 1)

find_nash_equilibrium(payoffs) == NashFrom(payoffs, 1, 1)

\* float('inf'), and the test total_years < min_total_years
Infinity == [finite |-> FALSE, years |-> 0]
Finite(n) == [finite |-> TRUE, years |-> n]
LessThan(n, bound) == ~bound.finite \/ n < bound.years

\* the loop of find_socially_optimal from the i-th item of the dict on
RECURSIVE OptimalFrom(_, _, _, _)
OptimalFrom(payoffs, i, best_outcome, min_total_years) ==
    IF i > Len(Profiles) THEN best_outcome
    ELSE LET strategies == Profiles[i]
             total_years == payoffs[strategies][1] + payoffs[strategies][2]
         IN  IF LessThan(total_years, min_total_years)
             THEN OptimalFrom(payoffs, i + 1, <<strategies, payoffs[strategies]>>,
                              Finite(total_years))
             ELSE OptimalFrom(payoffs, i + 1, best_outcome, min_total_years)

find_socially_optimal(payoffs) == OptimalFrom(payoffs, 1, None, Infinity)

(***************************************************************************)
(* Input lines                                                             *)
(***************************************************************************)
SP == <<" ">>
W_north == <<"n", "o", "r", "t", "h">>
W_south == <<"s", "o", "u", "t", "h">>
W_east == <<"e", "a", "s", "t">>
W_west == <<"w", "e", "s", "t">>
W_go == <<"g", "o">>
W_quit == <<"q", "u", "i", "t">>
W_exit == <<"e", "x", "i", "t">>
W_look == <<"l", "o", "o", "k">>
W_l == <<"l">>
W_dance == <<"d", "a", "n", "c", "e">>
W_quickly == <<"q", "u", "i", "c", "k", "l", "y">>

Directions == {W_north, W_south, W_east, W_west}

Lines ==
    Directions
    \cup {W_go \o SP \o d : d \in Directions}
    \cup {W_quit, W_exit, W_look, W_l}
    \cup {<<"N", "O", "R", "T", "H">>, <<" ", "N", "o", "r", "t", "h", " ">>,
          <<"D", "a", "n", "c", "e">>, W_dance,
          <<>>, <<" ", " ">>,
          W_go, W_go \o SP \o W_quit, W_go \o SP \o W_quickly \o SP \o W_north}

\* the value of a local variable that no assignment has bound yet
Unbound == <<"<unbound>">>

(***************************************************************************)
(* AdventureGame.__init__ and play                                         *)
(***************************************************************************)
Init ==
    /\ rooms = create_world
    /\ current_room = "start_hall"
    /\ is_running = TRUE
    /\ stdout = <<>>
    /\ pending \in 0..MaxInput
    /\ line_read = Unbound
    /\ event = "none"
    /\ pc = "init"
    /\ matrix = PAYOFF_MATRIX
    /\ ne_results = <<>>
    /\ so_result = None

G == Session(current_room, is_running, stdout)

\* the prompt input(">> ") writes before it blocks
Prompt(g) == [g EXCEPT !.stdout = Append(@, ">> ")]

Commit(g, nextpc) ==
    /\ current_room' = g.current_room
    /\ is_running' = g.is_running
    /\ stdout' = g.stdout
    /\ pc' = IF g.raised # "none" THEN "crashed" ELSE nextpc

\* play(), up to the first test of the loop
PlayStart ==
    /\ pc = "init"
    /\ \E g \in {look(print(G, "Welcome to the Minimal Text Adventure!"))} :
            Commit(g, "loop")
    /\ UNCHANGED <<rooms, pending, line_read, event, analysis>>

\* an iteration that shows the room again on an empty line
Iteration_empty_looks(g, line) ==
    With(strip(line), LAMBDA stripped :
        IF stripped # <<>> THEN parse_command(Prompt(g), stripped)
                           ELSE look(Prompt(g)))

\* an iteration that quits on an empty line
Iteration_empty_quits(g, line) ==
    With(strip(line), LAMBDA stripped :
        IF stripped # <<>> THEN parse_command(Prompt(g), stripped)
                           ELSE quit_game(Prompt(g)))

\* one iteration whose input() returns the given line
Iteration(g, line) ==
    With(strip(line), LAMBDA stripped :
        IF stripped # <<>> THEN parse_command(Prompt(g), stripped)
                           ELSE Prompt(g))

\* an iteration taken without the test of is_running at the head of the loop
ReadLine_unguarded ==
    /\ pc = "loop"
    /\ pending > 0
    /\ \E line \in Lines :
          /\ \E g \in {Iteration(G, line)} : Commit(g, "loop")
          /\ line_read' = line
    /\ pending' = pending - 1
    /\ event' = "line"
    /\ UNCHANGED <<rooms, analysis>>

ReadLine ==
    /\ pc = "loop"
    /\ is_running
    /\ pending > 0
    /\ \E line \in Lines :
          /\ \E g \in {Iteration(G, line)} : Commit(g, "loop")
          /\ line_read' = line
    /\ pending' = pending - 1
    /\ event' = "line"
    /\ UNCHANGED <<rooms, analysis>>

\* play() without the except EOFError clause
ReadEOF_uncaught ==
    /\ pc = "loop"
    /\ is_running
    /\ pending = 0
    /\ stdout' = Append(stdout, ">> ")
    /\ event' = "EOFError"
    /\ pc' = "crashed"
    /\ UNCHANGED <<rooms, current_room, is_running, pending, line_read, analysis>>

\* one iteration whose input() raises EOFError
ReadEOF ==
    /\ pc = "loop"
    /\ is_running
    /\ pending = 0
    /\ \E g \in {quit_game(Prompt(G))} : Commit(g, "loop")
    /\ event' = "EOFError"
    /\ UNCHANGED <<rooms, pending, line_read, analysis>>

\* one iteration whose input() is interrupted (KeyboardInterrupt); the
\* interrupt is taken at the blocking read, where the loop spends its time
Interrupt ==
    /\ pc = "loop"
    /\ is_running
    /\ \E g \in {quit_game(Prompt(G))} : Commit(g, "loop")
    /\ event' = "KeyboardInterrupt"
    /\ UNCHANGED <<rooms, pending, line_read, analysis>>

\* the loop test fails and play() returns
LoopExit ==
    /\ pc = "loop"
    /\ ~is_running
    /\ pc' = "done"
    /\ UNCHANGED <<rooms, current_room, is_running, stdout, pending, line_read, event, analysis>>

Next == PlayStart \/ ReadLine \/ ReadEOF \/ Interrupt \/ LoopExit

Spec == Init /\ [][Next]_vars

\* the program as shipped: construction, then play() to its end
FairSpec == Spec /\ WF_vars(Next)

(***************************************************************************)
(* The controller driven directly: a caller hands lines to parse_command,  *)
(* without the loop of play() in between.                                  *)
(***************************************************************************)
CallParseCommand ==
    /\ pc = "init"
    /\ pending > 0
    /\ \E line \in Lines :
          /\ \E g \in {parse_command(G, line)} : Commit(g, "init")
          /\ line_read' = line
    /\ pending' = pending - 1
    /\ event' = "call"
    /\ UNCHANGED <<rooms, analysis>>

\* quit_game called directly, as the handlers of play() call it
CallQuitGame ==
    /\ pc = "init"
    /\ pending > 0
    /\ \E g \in {quit_game(G)} : Commit(g, "init")
    /\ pending' = pending - 1
    /\ event' = "call"
    /\ UNCHANGED <<rooms, line_read, analysis>>

NextAPI == CallParseCommand \/ CallQuitGame

SpecAPI == Init /\ [][NextAPI]_vars

(***************************************************************************)
(* Construction over the worlds a content author can declare: the shipped  *)
(* world, or the shipped world with one more add_connection call, whose     *)
(* target may be a key the mapping does not hold.                          *)
(***************************************************************************)
DirectionNames == {"north", "south", "east", "west"}

MissingKey == "cellar"

Worlds ==
    {create_world}
    \cup {[create_world EXCEPT ![k] = add_connection(@, d, t)] :
             k \in RoomKeys, d \in DirectionNames, t \in RoomKeys \cup {MissingKey}}

InitW ==
    /\ rooms \in Worlds
    /\ current_room = "unset"
    /\ is_running = "unset"
    /\ stdout = <<>>
    /\ pending \in 0..MaxInput
    /\ line_read = Unbound
    /\ event = "none"
    /\ pc = "create_world"
    /\ matrix = PAYOFF_MATRIX
    /\ ne_results = <<>>
    /\ so_result = None

\* AdventureGame.__init__, once _create_world has returned the mapping
Construct ==
    /\ pc = "create_world"
    /\ current_room' = "start_hall"
    /\ is_running' = TRUE
    /\ pc' = "init"
    /\ UNCHANGED <<rooms, stdout, pending, line_read, event, analysis>>

NextW == Construct \/ PlayStart \/ ReadLine \/ ReadEOF \/ Interrupt \/ LoopExit

SpecW == InitW /\ [][NextW]_vars

(***************************************************************************)
(* prisoners_dilemma.py run on a payoff matrix: the shipped one, or any    *)
(* matrix of years up to MaxYears.                                         *)
(***************************************************************************)
Years == 0..MaxYears

Matrices ==
    {PAYOFF_MATRIX} \cup [DOMAIN PAYOFF_MATRIX -> Years \X Years]

InitPD ==
    /\ rooms = create_world
    /\ current_room = "start_hall"
    /\ is_running = TRUE
    /\ stdout = <<>>
    /\ pending = 0
    /\ line_read = Unbound
    /\ event = "none"
    /\ pc = "pd_start"
    /\ matrix \in Matrices
    /\ ne_results = <<>>
    /\ so_result = None

\* ne_results = find_nash_equilibrium(PAYOFF_MATRIX)
FindNash ==
    /\ pc = "pd_start"
    /\ ne_results' = find_nash_equilibrium(matrix)
    /\ pc' = "pd_nash"
    /\ UNCHANGED <<rooms, current_room, is_running, stdout, pending, line_read,
                   event, matrix, so_result>>

\* so_result = find_socially_optimal(PAYOFF_MATRIX)
FindOptimal ==
    /\ pc = "pd_nash"
    /\ so_result' = find_socially_optimal(matrix)
    /\ pc' = "pd_done"
    /\ UNCHANGED <<rooms, current_room, is_running, stdout, pending, line_read,
                   event, matrix, ne_results>>

NextPD == FindNash \/ FindOptimal

SpecPD == InitPD /\ [][NextPD]_vars

(***************************************************************************)
(* Vocabulary of the properties                                            *)
(***************************************************************************)
PromptText == ">> "
RejectionText == "You cannot go that way.\n"
FarewellText == "\nThank you for playing. Goodbye!\n"
TreasureText ==
    "\n--- Treasure Chamber ---\nA small chamber filled with glittering gold and ancient artifacts! You win!\nAvailable exits: \n"
CorridorText ==
    "\n--- Dark Corridor ---\nA narrow, dark corridor. It smells faintly of mildew.\nAvailable exits: south, west\n"

\* the step is an iteration of the loop whose read returns a line, line_read'
Reads == pc = "loop" /\ is_running /\ pending' = pending - 1

\* the step is an iteration of the loop whose read ends without a line
ReadFails == pc = "loop" /\ is_running /\ pending' = pending /\ vars' # vars

LastWrite == IF stdout = <<>> THEN "" ELSE stdout[Len(stdout)]

\* the classification of a line by the interpreter's rules
Tokens(line) == split(strip(lower(line)))
IsMove(line) == Tokens(line) # <<>> /\ Str(Tokens(line)[1]) \in MoveVerbs
DirectionOf(line) ==
    LET t == Tokens(line)
    IN  IF Str(t[1]) = "go" THEN Str(t[Len(t)]) ELSE Str(t[1])

Exits(k) == {rooms[k].connections[i][1] : i \in 1..Len(rooms[k].connections)}
TargetOf(k, d) ==
    LET c == rooms[k].connections
    IN  c[CHOOSE i \in 1..Len(c) : c[i][1] = d][2]

\* the step leaves the session as the session value g describes it
LeavesSession(g) ==
    /\ current_room' = g.current_room
    /\ is_running' = g.is_running
    /\ stdout' = g.stdout
    /\ g.raised = "none"
    /\ pc' = "loop"

\* C1: once the session is Ended, a further action handed to the controller
\* changes neither the current room nor the output
EndedIsNoOp ==
    [][~is_running => (current_room' = current_room /\ stdout' = stdout)]_vars

\* C2: a Move while Running in a direction that is no exit of the current room
\* keeps the room, keeps the session Running and writes exactly the rejection
RejectedMoveKeepsState ==
    [][(Reads /\ IsMove(line_read')
          /\ DirectionOf(line_read') \notin Exits(current_room))
        => /\ current_room' = current_room
           /\ is_running' = TRUE
           /\ pc' = "loop"
           /\ stdout' = stdout \o <<PromptText, RejectionText>>]_vars

RejectedMoveSeen ==
    /\ pc = "loop" /\ is_running /\ event = "line"
    /\ current_room = "dark_corridor"
    /\ line_read = W_go \o SP \o W_east
    /\ LastWrite = RejectionText

\* C3: a Move while Running along an exit into a terminal room makes that room
\* current, writes its description and ends the session; "east" from the
\* Entrance Hall ends the session in the Treasure Chamber
TerminalMoveEnds ==
    [][/\ (Reads /\ IsMove(line_read')
             /\ DirectionOf(line_read') \in Exits(current_room)
             /\ rooms[TargetOf(current_room, DirectionOf(line_read'))].is_end)
          => LET target == TargetOf(current_room, DirectionOf(line_read'))
             IN  /\ current_room' = target
                 /\ is_running' = FALSE
                 /\ pc' = "loop"
                 /\ stdout' = stdout \o <<PromptText,
                        "\n--- " \o rooms[target].name \o " ---\n"
                        \o rooms[target].description \o "\nAvailable exits: "
                        \o Join(DictKeys(rooms[target].connections)) \o "\n">>
       /\ (Reads /\ current_room = "start_hall" /\ line_read' = W_east)
          => /\ current_room' = "treasure_chamber"
             /\ is_running' = FALSE
             /\ stdout' = stdout \o <<PromptText, TreasureText>>]_vars

VictoryReached ==
    /\ pc = "done" /\ ~is_running
    /\ current_room = "treasure_chamber"
    /\ line_read = W_east
    /\ LastWrite = TreasureText

\* C4: "quit" and "exit", in any reachable room after any prior commands, end
\* the session, write the farewell and keep the current room
QuitAlwaysEnds ==
    [][(Reads /\ line_read' \in {W_quit, W_exit})
        => /\ current_room' = current_room
           /\ is_running' = FALSE
           /\ pc' = "loop"
           /\ stdout' = stdout \o <<PromptText, FarewellText>>]_vars

QuitMidExploration ==
    /\ ~is_running /\ event = "line"
    /\ current_room = "storage_room"
    /\ line_read = W_exit
    /\ LastWrite = FarewellText

\* C5: end-of-input or an interrupt during the read acts as an explicit quit
\* (farewell written, session Ended), and for every finite input stream the
\* loop eventually terminates
EndOfInputQuits ==
    /\ [][ReadFails
            => /\ LeavesSession(Iteration(G, W_quit))
               /\ current_room' = current_room
               /\ is_running' = FALSE
               /\ stdout' = stdout \o <<PromptText, FarewellText>>]_vars
    /\ <>(pc = "done")

EndOfInputDone ==
    /\ pc = "done" /\ ~is_running
    /\ event = "EOFError"
    /\ current_room = "dark_corridor"
    /\ LastWrite = FarewellText

\* C6: for each canonical direction d, "go d" has the effect of the bare "d":
\* same resulting room, running flag and output; from the Entrance Hall both
\* "go north" and "north" move to the Dark Corridor and show exits south, west
GoEqualsBare ==
    [][/\ \A d \in Directions :
            (Reads /\ line_read' = W_go \o SP \o d)
            => LeavesSession(Iteration(G, d))
       /\ (Reads /\ current_room = "start_hall"
             /\ line_read' \in {W_north, W_go \o SP \o W_north})
          => /\ current_room' = "dark_corridor"
             /\ is_running' = TRUE
             /\ stdout' = stdout \o <<PromptText, CorridorText>>]_vars

GoNorthMoved ==
    /\ line_read = W_go \o SP \o W_north
    /\ current_room = "dark_corridor"
    /\ is_running
    /\ Len(stdout) = 4
    /\ LastWrite = CorridorText

\* two lines differ only in letter case and in surrounding whitespace
CasePairs == {<<k, LowerTable[k]>> : k \in DOMAIN LowerTable}
SameLetter(c, d) == c = d \/ <<c, d>> \in CasePairs \/ <<d, c>> \in CasePairs
SameModuloCase(a, b) ==
    LET x == strip(a)
        y == strip(b)
    IN  Len(x) = Len(y) /\ \A i \in 1..Len(x) : SameLetter(x[i], y[i])

\* C7: two input lines that differ only in letter case and surrounding
\* whitespace, read in the same session state, have the same effect
CaseInsensitive ==
    [][\A b \in Lines :
          (Reads /\ SameModuloCase(line_read', b))
          => LeavesSession(Iteration(G, b))]_vars

UpperCaseMoved ==
    /\ line_read = <<"N", "O", "R", "T", "H">>
    /\ current_room = "dark_corridor"
    /\ is_running
    /\ LastWrite = CorridorText

\* C8: "look" and "l" both write the current room's description and change
\* neither the room nor the running flag, so consecutive looks write the
\* same description
LookIsPure ==
    [][(Reads /\ line_read' \in {W_look, W_l})
        => /\ current_room' = current_room
           /\ is_running' = is_running
           /\ pc' = "loop"
           /\ stdout' = stdout \o <<PromptText,
                  "\n" \o get_description(rooms[current_room]) \o "\n">>
           /\ (event = "line" /\ line_read \in {W_look, W_l})
              => stdout'[Len(stdout')] = stdout[Len(stdout)]]_vars

LookedTwice ==
    /\ line_read = W_l /\ event = "line"
    /\ current_room = "dark_corridor"
    /\ Len(stdout) = 8
    /\ stdout[8] = CorridorText
    /\ stdout[6] = CorridorText

\* every exit target of every room is a key of the room mapping
GraphClosed ==
    \A k \in DOMAIN rooms :
        \A i \in 1..Len(rooms[k].connections) :
            rooms[k].connections[i][2] \in DOMAIN rooms

\* C9: every exit target of every room of the world built at construction is a
\* key of the room mapping, and no Move looks up a missing room
GraphClosure == GraphClosed /\ pc # "crashed"

MovedThroughGraph ==
    /\ current_room = "storage_room"
    /\ line_read = W_west
    /\ event = "line"
    /\ Len(stdout) = 6

\* C10: a world with an exit to a key absent from the mapping fails at
\* construction, before any interaction, and never fails during a later Move
DanglingExitFailsConstruction ==
    /\ ~GraphClosed => pc = "create_world"
    /\ pc # "crashed"

\* C11: the session starts Running in the start room, and once the running
\* flag is false no command and no quit makes it true again
RunningIsMonotone ==
    /\ (current_room = "start_hall" /\ is_running = TRUE)
    /\ [][~is_running => ~is_running']_vars

MovedWhileEnded ==
    /\ ~is_running /\ event = "call"
    /\ line_read = W_north
    /\ current_room = "dark_corridor"
    /\ LastWrite = CorridorText

\* C12: a line that is empty after trimming changes neither the room nor the
\* running flag and writes nothing; the loop only prompts again
EmptyLineIsNoOp ==
    [][(Reads /\ strip(line_read') = <<>>)
        => /\ current_room' = current_room
           /\ is_running' = TRUE
           /\ pc' = "loop"
           /\ stdout' = Append(stdout, PromptText)]_vars

BlankLineRead ==
    /\ pc = "loop" /\ is_running /\ event = "line"
    /\ line_read = <<" ", " ">>
    /\ current_room = "dark_corridor"
    /\ LastWrite = PromptText

\* the pairs from which neither player gets fewer years by switching alone
StrategySet == {STRATEGIES[i] : i \in 1..Len(STRATEGIES)}
Equilibria(p) ==
    {pair \in StrategySet \X StrategySet :
        /\ \A a \in StrategySet : p[<<a, pair[2]>>][1] >= p[pair][1]
        /\ \A b \in StrategySet : p[<<pair[1], b>>][2] >= p[pair][2]}
Combined(years) == years[1] + years[2]

\* C13: find_nash_equilibrium returns exactly the pairs from which neither
\* player can strictly reduce the own years by switching alone, each with its
\* payoffs; find_socially_optimal returns an outcome of minimal combined
\* years; for the shipped matrix these are (D, D) with (5, 5) and (C, C)
\* with (2, 2)
AnalysisIsCorrect ==
    /\ pc \in {"pd_nash", "pd_done"}
       => /\ {ne_results[i][1] : i \in 1..Len(ne_results)} = Equilibria(matrix)
          /\ Len(ne_results) = Cardinality(Equilibria(matrix))
          /\ \A i \in 1..Len(ne_results) :
                ne_results[i][2] = matrix[ne_results[i][1]]
    /\ pc = "pd_done"
       => /\ so_result # None
          /\ so_result[1] \in DOMAIN matrix
          /\ so_result[2] = matrix[so_result[1]]
          /\ \A k \in DOMAIN matrix : Combined(so_result[2]) <= Combined(matrix[k])
    /\ (pc = "pd_done" /\ matrix = PAYOFF_MATRIX)
       => /\ ne_results = << <<<<"D", "D">>, <<5, 5>>>> >>
          /\ so_result = <<<<"C", "C">>, <<2, 2>>>>

ShippedMatrixAnalysed ==
    /\ pc = "pd_done"
    /\ matrix = PAYOFF_MATRIX
    /\ Len(ne_results) = 1
    /\ ne_results[1][1] = <<"D", "D">>
    /\ so_result[1] = <<"C", "C">>

\* a line whose first token is "go"
IsGo(line) == Tokens(line) # <<>> /\ Str(Tokens(line)[1]) = "go"
Rejected ==
    /\ current_room' = current_room
    /\ is_running' = TRUE
    /\ stdout' = stdout \o <<PromptText, RejectionText>>
    /\ pc' = "loop"

\* C14: after "go" the direction is the last token of the line: "go quickly
\* north" acts as "north" does; "go" alone, "go quit" and every "go ..." whose
\* last token is no exit of the room are rejected, the session staying
\* Running in the same room
GoTakesLastToken ==
    [][/\ (Reads /\ line_read' = W_go \o SP \o W_quickly \o SP \o W_north)
          => LeavesSession(Iteration(G, W_north))
       /\ (Reads /\ IsGo(line_read'))
          => LeavesSession(handle_move(Prompt(G), DirectionOf(line_read')))
       /\ (Reads /\ line_read' \in {W_go, W_go \o SP \o W_quit}) => Rejected
       /\ (Reads /\ IsGo(line_read')
             /\ DirectionOf(line_read') \notin Exits(current_room))
          => Rejected]_vars

GoQuicklyNorthMoved ==
    /\ line_read = W_go \o SP \o W_quickly \o SP \o W_north
    /\ current_room = "dark_corridor"
    /\ is_running
    /\ Len(stdout) = 4
    /\ stdout[3] = PromptText
    /\ LastWrite = CorridorText

\* C15: once is_running is false the loop takes no further iteration: no line
\* is read, nothing is handed to the controller and nothing is written, also
\* with input lines left; the only step left is the return of play()
LoopStopsAfterEnded ==
    [][(pc = "loop" /\ ~is_running)
        => /\ pending' = pending
           /\ line_read' = line_read
           /\ event' = event
           /\ stdout' = stdout
           /\ current_room' = current_room
           /\ is_running' = FALSE
           /\ pc' = "done"]_vars

EndedWithInputLeft ==
    /\ pc = "done"
    /\ ~is_running
    /\ pending > 0
    /\ event = "line"
    /\ line_read = W_quit
    /\ LastWrite = FarewellText

KnownVerbs == MoveVerbs \cup {"quit", "exit", "look", "l"}
IsUnrecognized(line) ==
    Tokens(line) # <<>> /\ Str(Tokens(line)[1]) \notin KnownVerbs
UnknownText(line) ==
    "Unknown command: '" \o Str(strip(lower(line)))
        \o "'. Try 'go north' or 'quit'.\n"

\* C16: a line whose first token is no known verb leaves the room as it is,
\* keeps the session Running and writes one message that quotes the command
\* (as the interpreter holds it: trimmed and in lower case) and the usage hint
UnrecognizedIsRecoverable ==
    [][(Reads /\ IsUnrecognized(line_read'))
        => /\ current_room' = current_room
           /\ is_running' = TRUE
           /\ pc' = "loop"
           /\ stdout' = stdout \o <<PromptText, UnknownText(line_read')>>]_vars

UnknownCommandSeen ==
    /\ pc = "loop"
    /\ is_running
    /\ event = "line"
    /\ line_read = <<"D">> \o Tail(W_dance)
    /\ current_room = "dark_corridor"
    /\ LastWrite = "Unknown command: 'dance'. Try 'go north' or 'quit'.\n"

\* the events of a step of the loop
TerminalMove ==
    /\ Reads /\ IsMove(line_read')
    /\ DirectionOf(line_read') \in Exits(current_room)
    /\ rooms[TargetOf(current_room, DirectionOf(line_read'))].is_end
QuitCommand ==
    /\ Reads /\ Tokens(line_read') # <<>>
    /\ Str(Tokens(line_read')[1]) \in {"quit", "exit"}
EndOfInput == ReadFails /\ event' = "EOFError"
Interrupted == ReadFails /\ event' = "KeyboardInterrupt"
\* a line that is a look, an unknown command, empty, a rejected move or a
\* move into a room that is not terminal
HarmlessLine ==
    /\ Reads
    /\ \/ Tokens(line_read') = <<>>
       \/ IsUnrecognized(line_read')
       \/ Str(Tokens(line_read')[1]) \in {"look", "l"}
       \/ /\ IsMove(line_read')
          /\ DirectionOf(line_read') \notin Exits(current_room)
       \/ /\ IsMove(line_read')
          /\ DirectionOf(line_read') \in Exits(current_room)
          /\ ~rooms[TargetOf(current_room, DirectionOf(line_read'))].is_end

\* C17 as stated: is_running turns false only by a move into a terminal
\* room, a quit/exit command or end-of-input; every other line leaves it true
OnlyThreeEndings ==
    [][/\ (is_running /\ ~is_running')
          => (TerminalMove \/ QuitCommand \/ EndOfInput)
       /\ HarmlessLine => is_running' = TRUE]_vars

\* C17, amended: is_running turns false only by a move into a terminal room,
\* a quit/exit command, end-of-input or an interrupt of the blocking read;
\* every other line leaves it true
OnlyFourEndings ==
    [][/\ (is_running /\ ~is_running')
          => (TerminalMove \/ QuitCommand \/ EndOfInput \/ Interrupted)
       /\ HarmlessLine => is_running' = TRUE]_vars

InterruptEnded ==
    /\ ~is_running
    /\ event = "KeyboardInterrupt"
    /\ pending > 0
    /\ current_room = "dark_corridor"
    /\ LastWrite = FarewellText

\* C18: in every reachable state, a current room with the terminal flag set
\* means the session is Ended; a Running session is in a room that is not
\* terminal
TerminalRoomMeansEnded ==
    /\ rooms[current_room].is_end => ~is_running
    /\ is_running => ~rooms[current_room].is_end

InTerminalRoom ==
    /\ rooms[current_room].is_end
    /\ current_room = "treasure_chamber"
    /\ ~is_running
    /\ pc = "loop"
    /\ event = "line"
    /\ line_read = W_go \o SP \o W_east

\* the sessions a sequence of Move commands leads to: the directions ds handed
\* to _handle_move one after the other, as long as the session is Running
RECURSIVE MoveAll(_, _)
MoveAll(g, ds) ==
    IF ds = <<>> \/ ~g.is_running \/ g.raised # "none" THEN g
    ELSE MoveAll(handle_move(g, Str(Head(ds))), Tail(ds))
\* a path that enters no room twice has fewer moves than there are rooms
MovePaths ==
    UNION {[1..n -> Directions] : n \in 0..(Cardinality(DOMAIN rooms) - 1)}
Victory(g) ==
    /\ g.raised = "none"
    /\ ~g.is_running
    /\ rooms[g.current_room].is_end
    /\ g.stdout[Len(g.stdout)] = TreasureText
RoomsWithin(g) == {MoveAll(g, ds).current_room : ds \in MovePaths}
CanWin(g) == \E ds \in MovePaths : Victory(MoveAll(g, ds))

\* C19: the shipped world has no trap state: each of the four rooms is
\* reached from the start by some sequence of moves, and from every state in
\* which the session is Running some sequence of moves enters the Treasure
\* Chamber and ends the session in victory
NoTrapState ==
    /\ Cardinality(DOMAIN rooms) = 4
    /\ pc = "init" => RoomsWithin(G) = DOMAIN rooms
    /\ is_running => CanWin(G)

FarFromTreasure ==
    /\ is_running
    /\ pc = "loop"
    /\ current_room = "storage_room"
    /\ line_read = W_go \o SP \o W_west
    /\ CanWin(G)
    /\ ~Victory(MoveAll(G, <<W_east, W_south>>))
    /\ Victory(MoveAll(G, <<W_east, W_south, W_east>>))

\* the number of times the farewell has been written
Farewells == Cardinality({i \in 1..Len(stdout) : stdout[i] = FarewellText})

\* C20: over a run of play() the farewell is written at most once: exactly
\* once when the session has ended by quit/exit or by the end of the input
\* (or an interrupt of the read), never when it has ended by the move into
\* a terminal room
FarewellAtMostOnce ==
    /\ Farewells <= 1
    /\ is_running => Farewells = 0
    /\ (~is_running /\ rooms[current_room].is_end) => Farewells = 0
    /\ (~is_running /\ ~rooms[current_room].is_end)
       => /\ Farewells = 1
          /\ LastWrite = FarewellText
          /\ \/ event \in {"EOFError", "KeyboardInterrupt"}
             \/ event = "line" /\ Str(Tokens(line_read)[1]) \in {"quit", "exit"}

RunEndedWithFarewell ==
    /\ pc = "done"
    /\ Farewells = 1
    /\ event = "line"
    /\ line_read = W_exit
    /\ current_room = "storage_room"

====
